---- MODULE Spec2Model ----
(***************************************************************************)
(* Annote: the offline-first notes store (src/src/store/notesStore.ts),    *)
(* the session store (authStore, second half of src/unnamed/part_001) and  *)
(* the connectivity listener of NotesListScreen (first half of             *)
(* src/unnamed/part_001), as one state machine.                            *)
(*                                                                         *)
(* JavaScript runs every handler to its next `await` without interleaving, *)
(* so one action is one such run.  A remote call is two steps: the server  *)
(* serves the request (Serve...), then the caller resumes with the reply   *)
(* (Resume...).  Operations in flight are the records of the bag `tasks`.  *)
(***************************************************************************)
EXTENDS Integers, Sequences, FiniteSets, Bags, TLC

\* ----- bounds of the model -----
MaxNotes == 2
MaxClock == 1
MaxTasks == 2
MaxNetTasks == 1
MaxEvents == 3
MaxSeqEvents == 4
CallCap == 2

Ids == 1..MaxNotes
Users == {"alice", "bob"}
NoUser == "nobody"
\* the two identities are interchangeable: the first to sign in is called FirstUser
FirstUser == "alice"
\* the (title, content) pairs a user or another device types
Inputs == {[title |-> "Groceries", content |-> "milk"], [title |-> "Chores", content |-> ""]}
Null == "null"

ErrNotAuth == "User not authenticated"
ErrFetch == "Failed to fetch notes"
ErrOffline == "Cannot sync: device is offline"
ErrCreate == "Failed to create note"

VARIABLES
    user,       \* authStore.user: the signed-in identity, or NoUser
    net,        \* NetInfo's connectivity (what NetInfo.fetch() resolves to)
    isOnline,   \* notesStore.isOnline, the store's cached flag
    prevOnline, \* NotesListScreen previousOnlineStatus.current
    clock,      \* the latest time new Date() has returned
    nextId,     \* the next fresh note id
    db,         \* the local SQLite table notes: id -> row
    remote,     \* the Supabase table notes: id -> row
    notes,      \* notesStore.notes, the in-memory listing
    loading,    \* notesStore.loading
    error,      \* notesStore.error
    tasks,      \* operations suspended at an await
    hist,       \* per id: what is known of its last local mutation and the remote calls since
    events      \* how many more user and environment events the run may have

vars == <<user, net, isOnline, prevOnline, clock, nextId, db, remote,
          notes, loading, error, tasks, hist, events>>

\* ----- pure helpers -----

\* `content || ''` (notesStore.ts:103, 160, 167, 183, 230, 240)
OrEmpty(c) == IF c = Null \/ c = "" THEN "" ELSE c

\* `isOnline ? 0 : 1`, the synced column written by a local mutation
SyncedParam(online) == IF online THEN FALSE ELSE TRUE

Remove(f, S) == [i \in DOMAIN f \ S |-> f[i]]
Put(f, i, r) == [j \in DOMAIN f \cup {i} |-> IF j = i THEN r ELSE f[j]]

\* a mark that writes the row back as clean and live (a variant, not what the code does)
MarkSyncedReplace(d, i) ==
    IF i \in DOMAIN d THEN [d EXCEPT ![i].synced = TRUE, ![i].deleted = FALSE] ELSE d
\* UPDATE notes SET synced = 1 WHERE id = ?
MarkSynced(d, i) == IF i \in DOMAIN d THEN [d EXCEPT ![i].synced = TRUE] ELSE d

\* WHERE user_id = ? AND deleted = 0
ActiveIds(d, u) == {i \in DOMAIN d : d[i].user_id = u /\ ~d[i].deleted}

\* WHERE user_id = ? AND synced = 0 AND deleted = 0
UnsyncedIds(d, u) == {i \in DOMAIN d : d[i].user_id = u /\ ~d[i].synced /\ ~d[i].deleted}

\* WHERE user_id = ? AND synced = 0 AND deleted = 1
UnsyncedDeletionIds(d, u) == {i \in DOMAIN d : d[i].user_id = u /\ ~d[i].synced /\ d[i].deleted}

NoteOf(d, i) == [id |-> i] @@ d[i]

Orderings(S) == {s \in [1..Cardinality(S) -> S] : \A a, b \in DOMAIN s : a # b => s[a] # s[b]}

\* the active rows in any order (a variant, not what the SELECT of fetchNotes returns)
ListingsUnordered(d, u) ==
    {[k \in DOMAIN s |-> NoteOf(d, s[k])] : s \in Orderings(ActiveIds(d, u))}
\* ORDER BY updated_at DESC: every order of the rows that is descending (ties in any order)
Listings(d, u) ==
    {[k \in DOMAIN s |-> NoteOf(d, s[k])] :
        s \in {o \in Orderings(ActiveIds(d, u)) :
                 \A a, b \in DOMAIN o : a < b => d[o[a]].updated_at >= d[o[b]].updated_at}}

\* the rows a SELECT without ORDER BY returns, in any order
Snapshots(d, S) == {[k \in DOMAIN s |-> NoteOf(d, s[k])] : s \in Orderings(S)}

\* ----- in-flight operations -----

NoPayload == [title |-> "", content |-> "", at |-> 0]

\* what is recorded of a syncNotes pass for the claims (not program state): the rows whose
\* first pass it is, whether every reply so far was a success, the ids whose push failed,
\* how many pushes its snapshot holds, how many it has sent, and whether its fetch has
\* been written locally
NoPass == [first |-> {}, allOk |-> TRUE, failed |-> {}, total |-> 0, pushed |-> 0, pulled |-> FALSE]

\* what a suspended createNote, updateNote or deleteNote holds across its awaits: the id,
\* newNote.synced (createNote only), and for the claims whether its remote call failed
\* and whether its local statement found a row
NoFrame == [id |-> 0, synced |-> FALSE, failed |-> FALSE, found |-> TRUE]

\* a suspended operation: op is the function, pc its await point
\* ("req": request sent, not yet served; "resp": reply ok/failed waiting to be handled)
Task(op, pc, u) ==
    [op |-> op, pc |-> pc, user |-> u, id |-> 0, payload |-> NoPayload,
     toSync |-> <<>>, toDel |-> <<>>, ok |-> FALSE, data |-> <<>>,
     caller |-> op, pass |-> NoPass, frame |-> NoFrame]

One(t) == SetToBag({t})
StoreOps == {"create", "update", "delete", "sync", "fetch"}
InFlight(ops) == {t \in BagToSet(tasks) : t.op \in ops}
Count(ops) == BagCardinality([t \in InFlight(ops) |-> tasks[t]])
\* the bound on store operations in flight
StoreSlotFree == Count(StoreOps) < MaxTasks

\* pending NetInfo.fetch() calls of one kind all do the same when they resolve, so those
\* beyond the bound are not kept apart
AddNet(tk, t) == IF t \in BagToSet(tk) /\ tk[t] >= MaxNetTasks THEN tk ELSE tk (+) One(t)

\* every action a user or the environment starts is one event of the budget
Spend == events > 0 /\ events' = events - 1

\* new Date(): the time has advanced since the last reading, or not
Nows == {t \in {clock, clock + 1} : t <= MaxClock}

\* ----- history kept for the claims (not program state) -----

NoEdit == [title |-> "", content |-> ""]
BlankHist == [created |-> FALSE, edits |-> 0, deleted |-> FALSE, last |-> NoEdit,
              ups |-> 0, dels |-> 0, pass |-> "none", backed |-> FALSE]
Bump(n) == IF n < CallCap THEN n + 1 ELSE CallCap

\* a local mutation of kind k on row i, made with the store's flag `online`; p is the
\* title and content it wrote (a deletion writes none)
HistLocal(h, i, k, online, p) ==
    IF online THEN [h EXCEPT ![i] = BlankHist]
    ELSE [h EXCEPT ![i] =
            [created |-> (k = "create") \/ (h[i].created /\ k # "create"),
             edits   |-> IF k = "update" THEN Bump(h[i].edits) ELSE h[i].edits,
             deleted |-> (k = "delete") \/ h[i].deleted,
             last    |-> IF k = "delete" THEN h[i].last ELSE p,
             ups |-> 0, dels |-> 0, pass |-> "none", backed |-> FALSE]]

OfflinePending(h, i) == h[i].created \/ h[i].edits > 0 \/ h[i].deleted

\* a successful reply for row i was observed; agrees: its payload is the row's current state
HistAck(h, i, agrees) == IF agrees THEN [h EXCEPT ![i].backed = TRUE] ELSE h

\* the remote call a suspended syncNotes pass is waiting on is counted when it is sent
HistSend(h, t) ==
    IF t.toSync # <<>>
    THEN [h EXCEPT ![Head(t.toSync).id].ups = Bump(@)]
    ELSE IF t.toDel # <<>> THEN [h EXCEPT ![Head(t.toDel)].dels = Bump(@)] ELSE h

\* rows with an offline change that no pass has picked up yet: this pass is their first
FirstFor(h, u) == {i \in DOMAIN db : db[i].user_id = u /\ OfflinePending(h, i) /\ h[i].pass = "none"}
HistPass(h, S) == [i \in DOMAIN h |-> IF i \in S THEN [h[i] EXCEPT !.pass = "running"] ELSE h[i]]

\* ----- fetchNotes (notesStore.ts:43-141) -----

FetchTask(u, caller, pass, frame) ==
    [Task("fetch", "req", u) EXCEPT !.caller = caller, !.pass = pass, !.frame = frame]

\* fetchNotes up to its await, for the signed-in user u (or NoUser) with the store's flag
\* `online`, on the local table d, with tk the other operations in flight
RunFetchNotes(u, online, d, tk, caller, pass, frame) ==
    IF u = NoUser
    THEN /\ notes' = <<>>
         /\ error' = ErrNotAuth
         /\ loading' = loading
         /\ tasks' = tk
    ELSE /\ notes' \in Listings(d, u)
         /\ error' = Null
         /\ loading' = FALSE
         /\ tasks' = IF online THEN tk (+) One(FetchTask(u, caller, pass, frame)) ELSE tk

\* .select('*').eq('user_id', user.id).eq('deleted', false) on the remote table rm
Selected(rm, u) ==
    [i \in {j \in DOMAIN rm : rm[j].user_id = u /\ ~rm[j].deleted} |-> rm[i]]

\* the server answers the select: the user's rows with deleted = false, or an error
ServeSelect(t) ==
    /\ t \in BagToSet(tasks) /\ t.op = "fetch" /\ t.pc = "req"
    /\ \E ok \in BOOLEAN :
         LET t2 == [t EXCEPT !.pc = "resp", !.ok = ok,
                             !.data = IF ok THEN Selected(remote, t.user) ELSE <<>>]
         IN tasks' = (tasks (-) One(t)) (+) One(t2)
    /\ UNCHANGED <<user, net, isOnline, prevOnline, clock, nextId, db, remote,
                   notes, loading, error, hist, events>>

\* a pull that writes the content as fetched (a variant, not what fetchNotes does)
PullRowRaw(r) ==
    [user_id |-> r.user_id, title |-> r.title, content |-> r.content,
     created_at |-> r.created_at, updated_at |-> r.updated_at,
     synced |-> TRUE, deleted |-> FALSE]
\* a pull that writes the fetched row as dirty (a variant, not what fetchNotes does)
PullRowDirty(r) ==
    [user_id |-> r.user_id, title |-> r.title, content |-> OrEmpty(r.content),
     created_at |-> r.created_at, updated_at |-> r.updated_at,
     synced |-> FALSE, deleted |-> FALSE]
\* a pull that writes no owner (a variant, not what fetchNotes does)
PullRowUnowned(r) ==
    [user_id |-> NoUser, title |-> r.title, content |-> OrEmpty(r.content),
     created_at |-> r.created_at, updated_at |-> r.updated_at,
     synced |-> TRUE, deleted |-> FALSE]
\* INSERT OR REPLACE ... VALUES (?, ?, ?, ?, ?, ?, 1, 0) for a fetched row
PullRow(r) ==
    [user_id |-> r.user_id, title |-> r.title, content |-> OrEmpty(r.content),
     created_at |-> r.created_at, updated_at |-> r.updated_at,
     synced |-> TRUE, deleted |-> FALSE]

\* data.forEach(...) between BEGIN TRANSACTION and COMMIT
Pull(d, data) ==
    [i \in DOMAIN d \cup DOMAIN data |-> IF i \in DOMAIN data THEN PullRow(data[i]) ELSE d[i]]

\* the other handling of a failed select, reporting it (a variant, not what fetchNotes does)
ErrorAfterSelectReported(t) == IF t.ok THEN error ELSE ErrFetch
\* catch (syncError): "Don't set error here, just use local data" (notesStore.ts:128-131)
ErrorAfterSelect(t) == error

\* fetchNotes after the select: write the rows locally and read the listing again; a
\* failed select is logged and nothing else. A pass that awaited it sets loading false.
ResumeFetch(t) ==
    /\ t \in BagToSet(tasks) /\ t.op = "fetch" /\ t.pc = "resp"
    /\ tasks' = tasks (-) One(t)
    /\ IF t.ok
       THEN /\ db' = Pull(db, t.data)
            /\ notes' \in Listings(db', t.user)
            /\ hist' = [i \in DOMAIN hist |->
                          IF i \in DOMAIN t.data THEN [hist[i] EXCEPT !.backed = TRUE] ELSE hist[i]]
       ELSE UNCHANGED <<db, notes, hist>>
    /\ error' = ErrorAfterSelect(t)
    /\ loading' = IF t.caller = "sync" THEN FALSE ELSE loading
    /\ UNCHANGED <<user, net, isOnline, prevOnline, clock, nextId, remote, events>>

\* ----- the remote table, as the calls of notesStore.ts use it -----

\* .insert([{id, user_id, title, content, created_at, updated_at}]); deleted DEFAULT FALSE
RemoteInsert(rm, t) ==
    Put(rm, t.id, [user_id |-> t.user, title |-> t.payload.title, content |-> t.payload.content,
                   created_at |-> t.payload.at, updated_at |-> t.payload.at, deleted |-> FALSE])

\* .update({title, content, updated_at}).eq('id', id).eq('user_id', user.id): no row, no error
RemoteUpdate(rm, t) ==
    IF t.id \in DOMAIN rm /\ rm[t.id].user_id = t.user
    THEN [rm EXCEPT ![t.id].title = t.payload.title, ![t.id].content = t.payload.content,
                    ![t.id].updated_at = t.payload.at]
    ELSE rm

\* .update({deleted: true}).eq('id', id).eq('user_id', user.id)
RemoteMarkDeleted(rm, i, u) ==
    IF i \in DOMAIN rm /\ rm[i].user_id = u THEN [rm EXCEPT ![i].deleted = TRUE] ELSE rm

\* .upsert({id, user_id, title, content, created_at, updated_at}, {onConflict: 'id'})
RemoteUpsert(rm, n) ==
    Put(rm, n.id, [user_id |-> n.user_id, title |-> n.title, content |-> n.content,
                   created_at |-> n.created_at, updated_at |-> n.updated_at,
                   deleted |-> IF n.id \in DOMAIN rm THEN rm[n.id].deleted ELSE FALSE])

\* what the write a task is waiting on does to the remote table when it succeeds
RemoteWrite(rm, t) ==
    CASE t.op = "create" -> RemoteInsert(rm, t)
      [] t.op = "update" -> RemoteUpdate(rm, t)
      [] t.op = "delete" -> RemoteMarkDeleted(rm, t.id, t.user)
      [] t.op = "sync" /\ t.toSync # <<>> -> RemoteUpsert(rm, Head(t.toSync))
      [] t.op = "sync" /\ t.toSync = <<>> -> RemoteMarkDeleted(rm, Head(t.toDel), t.user)

\* the server answers a write: applied, or failed (RemoteError) with no effect
ServeWrite(t) ==
    /\ t \in BagToSet(tasks) /\ t.op \in {"create", "update", "delete", "sync"} /\ t.pc = "req"
    /\ \E ok \in BOOLEAN :
         /\ remote' = IF ok THEN RemoteWrite(remote, t) ELSE remote
         /\ tasks' = (tasks (-) One(t)) (+) One([t EXCEPT !.pc = "resp", !.ok = ok])
    /\ UNCHANGED <<user, net, isOnline, prevOnline, clock, nextId, db,
                   notes, loading, error, hist, events>>

\* ----- createNote (notesStore.ts:143-213) -----

\* an operation of the signed-in user that will suspend at a remote call needs a free slot
CanStart == (user # NoUser /\ isOnline) => StoreSlotFree

\* newNote.synced as createNote builds it: `synced: isOnline` (notesStore.ts:170)
NewNoteSynced(online) == online

NewRow(u, title, content, now, online) ==
    [user_id |-> u, title |-> title, content |-> OrEmpty(content),
     created_at |-> now, updated_at |-> now, synced |-> SyncedParam(online), deleted |-> FALSE]

CreateNote(title, content, now) ==
    /\ Spend
    /\ CanStart
    /\ IF user = NoUser
       THEN /\ error' = ErrNotAuth
            /\ UNCHANGED <<clock, nextId, db, notes, loading, tasks, hist>>
       ELSE /\ nextId <= MaxNotes
            /\ nextId' = nextId + 1
            /\ clock' = now
            /\ db' = Put(db, nextId, NewRow(user, title, content, now, isOnline))
            /\ hist' = HistLocal(hist, nextId, "create", isOnline,
                                 [title |-> title, content |-> OrEmpty(content)])
            /\ IF isOnline
               THEN /\ tasks' = tasks (+) One([Task("create", "req", user) EXCEPT
                                 !.id = nextId,
                                 !.frame = [NoFrame EXCEPT !.id = nextId,
                                                           !.synced = NewNoteSynced(isOnline)],
                                 !.payload = [title |-> title, content |-> OrEmpty(content), at |-> now]])
                    /\ UNCHANGED <<notes, loading, error>>
               ELSE RunFetchNotes(user, isOnline, db', tasks, "create", NoPass, NoFrame)
    /\ UNCHANGED <<user, net, isOnline, prevOnline, remote>>

\* the row's state agrees with what a content-carrying call sent
AgreesContent(d, i, p) ==
    i \in DOMAIN d /\ d[i].title = p.title /\ d[i].content = p.content /\ ~d[i].deleted
AgreesDeleted(d, i) == i \in DOMAIN d /\ d[i].deleted

\* a createNote that gives up its Note when the remote insert fails (a variant, not what
\* createNote does)
AfterMirrorNull(t) ==
    [t.frame EXCEPT !.id = IF t.ok THEN @ ELSE 0,
                    !.synced = IF t.op = "create" /\ t.ok THEN TRUE ELSE @, !.failed = ~t.ok]
\* newNote.synced = true on success (notesStore.ts:198); a failure is caught and logged
AfterMirror(t) ==
    [t.frame EXCEPT !.synced = IF t.op = "create" /\ t.ok THEN TRUE ELSE @, !.failed = ~t.ok]

\* the continuation of createNote, updateNote and deleteNote after their remote call:
\* on success UPDATE notes SET synced = 1 WHERE id = ?, in both cases fetchNotes()
ResumeMirror(t) ==
    /\ t \in BagToSet(tasks) /\ t.op \in {"create", "update", "delete"} /\ t.pc = "resp"
    /\ db' = IF t.ok THEN MarkSynced(db, t.id) ELSE db
    /\ hist' = IF t.ok
               THEN HistAck(hist, t.id, IF t.op = "delete" THEN AgreesDeleted(db, t.id)
                                        ELSE AgreesContent(db, t.id, t.payload))
               ELSE hist
    /\ RunFetchNotes(user, isOnline, db', tasks (-) One(t), t.op, NoPass, AfterMirror(t))
    /\ UNCHANGED <<user, net, isOnline, prevOnline, clock, nextId, remote, events>>

\* createNote when the local INSERT throws: catch (error), set({ error }), return null
\* (notesStore.ts:208-212)
CreateNoteFails(title, content) ==
    /\ Spend
    /\ user # NoUser
    /\ error' = ErrCreate
    /\ UNCHANGED <<user, net, isOnline, prevOnline, clock, nextId, db, remote,
                   notes, loading, tasks, hist>>

\* ----- updateNote (notesStore.ts:215-265) -----

\* UPDATE notes SET title = ?, content = ?, updated_at = ?, synced = ? WHERE id = ?
LocalUpdate(d, i, title, content, now, online) ==
    IF i \in DOMAIN d
    THEN [d EXCEPT ![i].title = title, ![i].content = OrEmpty(content),
                   ![i].updated_at = now, ![i].synced = SyncedParam(online)]
    ELSE d

UpdateNote(i, title, content, now) ==
    /\ Spend
    /\ CanStart
    /\ IF user = NoUser
       THEN /\ error' = ErrNotAuth
            /\ UNCHANGED <<clock, db, notes, loading, tasks, hist>>
       ELSE /\ clock' = now
            /\ db' = LocalUpdate(db, i, title, content, now, isOnline)
            /\ hist' = IF i \in DOMAIN db THEN HistLocal(hist, i, "update", isOnline,
                                      [title |-> title, content |-> OrEmpty(content)])
                       ELSE hist
            /\ IF isOnline
               THEN /\ tasks' = tasks (+) One([Task("update", "req", user) EXCEPT
                                 !.id = i,
                                 !.frame = [NoFrame EXCEPT !.id = i, !.found = i \in DOMAIN db],
                                 !.payload = [title |-> title, content |-> OrEmpty(content), at |-> now]])
                    /\ UNCHANGED <<notes, loading, error>>
               ELSE RunFetchNotes(user, isOnline, db', tasks, "update", NoPass, NoFrame)
    /\ UNCHANGED <<user, net, isOnline, prevOnline, nextId, remote>>

\* ----- deleteNote (notesStore.ts:267-312) -----

\* UPDATE notes SET deleted = 1, synced = ? WHERE id = ?
LocalDelete(d, i, online) ==
    IF i \in DOMAIN d
    THEN [d EXCEPT ![i].deleted = TRUE, ![i].synced = SyncedParam(online)]
    ELSE d

DeleteNote(i) ==
    /\ Spend
    /\ CanStart
    /\ IF user = NoUser
       THEN /\ error' = ErrNotAuth
            /\ UNCHANGED <<db, notes, loading, tasks, hist>>
       ELSE /\ db' = LocalDelete(db, i, isOnline)
            /\ hist' = IF i \in DOMAIN db THEN HistLocal(hist, i, "delete", isOnline, NoEdit) ELSE hist
            /\ IF isOnline
               THEN /\ tasks' = tasks (+) One([Task("delete", "req", user) EXCEPT
                                 !.id = i,
                                 !.frame = [NoFrame EXCEPT !.id = i, !.found = i \in DOMAIN db]])
                    /\ UNCHANGED <<notes, loading, error>>
               ELSE RunFetchNotes(user, isOnline, db', tasks, "delete", NoPass, NoFrame)
    /\ UNCHANGED <<user, net, isOnline, prevOnline, clock, nextId, remote>>

\* ----- syncNotes (notesStore.ts:314-414) -----

\* the order in which a pass works: the snapshot's dirty rows, then its dirty tombstones,
\* then fetchNotes
PushesLeft(t) == t.toSync # <<>> \/ t.toDel # <<>>
\* the other order, fetchNotes before the pushes (a variant, not what syncNotes does)
SyncStepPullFirst(t) == "fetch"
SyncStep(t) == IF PushesLeft(t) THEN "push" ELSE "fetch"

\* a push of the pass is sent
Sent(t) == [t EXCEPT !.pass.pushed = @ + 1]

\* a syncNotes that does not look at the store's flag (a variant, not what syncNotes does)
SyncRefusedNever(online) == FALSE
\* if (!isOnline) { set({ error: 'Cannot sync: device is offline' }); return; }
SyncRefused(online) == ~online

\* syncNotes up to its first await, with tk the other operations in flight
RunSyncNotes(tk) ==
    IF user = NoUser
    THEN /\ tasks' = tk
         /\ UNCHANGED <<notes, loading, error, hist>>
    ELSE IF SyncRefused(isOnline)
    THEN /\ error' = ErrOffline
         /\ tasks' = tk
         /\ UNCHANGED <<notes, loading, hist>>
    ELSE \E ns \in Snapshots(db, UnsyncedIds(db, user)),
            ds \in Orderings(UnsyncedDeletionIds(db, user)) :
           LET first == FirstFor(hist, user)
               t == [Task("sync", "req", user) EXCEPT
                       !.toSync = ns, !.toDel = ds,
                       !.pass = [NoPass EXCEPT !.first = first, !.total = Len(ns) + Len(ds)]]
           IN IF SyncStep(t) = "push"
              THEN /\ tasks' = tk (+) One(Sent(t))
                   /\ loading' = TRUE
                   /\ error' = Null
                   /\ notes' = notes
                   /\ hist' = HistSend(HistPass(hist, first), t)
              ELSE /\ RunFetchNotes(user, isOnline, db, tk, "sync", t.pass, NoFrame)
                   /\ hist' = HistPass(hist, first)

\* a push of the pass has been answered: mark the row synced on success, go on with the rest
ResumeSync(t) ==
    /\ t \in BagToSet(tasks) /\ t.op = "sync" /\ t.pc = "resp"
    /\ LET upsert == t.toSync # <<>>
           i == IF upsert THEN Head(t.toSync).id ELSE Head(t.toDel)
           t2 == [t EXCEPT !.toSync = IF upsert THEN Tail(@) ELSE @,
                           !.toDel = IF upsert THEN @ ELSE Tail(@),
                           !.pc = "req", !.ok = FALSE, !.pass.allOk = @ /\ t.ok,
                           !.pass.failed = IF t.ok THEN @ ELSE @ \cup {i}]
           h2 == IF t.ok
                 THEN HistAck(hist, i, IF upsert THEN AgreesContent(db, i, Head(t.toSync))
                                       ELSE AgreesDeleted(db, i))
                 ELSE hist
       IN /\ db' = IF t.ok THEN MarkSynced(db, i) ELSE db
          /\ IF SyncStep(t2) = "push"
             THEN /\ tasks' = (tasks (-) One(t)) (+) One(Sent(t2))
                  /\ hist' = HistSend(h2, t2)
                  /\ UNCHANGED <<notes, loading, error>>
             ELSE /\ RunFetchNotes(user, isOnline, db', tasks (-) One(t), "sync", t2.pass, NoFrame)
                  /\ hist' = h2
    /\ UNCHANGED <<user, net, isOnline, prevOnline, clock, nextId, remote, events>>

\* ----- connectivity: checkNetworkStatus (notesStore.ts:38-41) and NotesListScreen -----

OnOff(b) == IF b THEN "online" ELSE "offline"

\* checkNetworkStatus() suspended at NetInfo.fetch()
CheckTask == Task("check", "req", NoUser)
\* initializeNetworkStatus() of the screen mounted for u, suspended in checkNetworkStatus()
InitTask(u) == Task("init", "check", u)

\* the screen's effect (part_001:42-109), run for user u with the store's flag `online`:
\* initializeNetworkStatus() and fetchNotes()
Effect(u, online, tk) == RunFetchNotes(u, online, db, AddNet(tk, InitTask(u)), "fetch", NoPass, NoFrame)

\* set({ isOnline: netInfo.isConnected ?? false }) with tk the other operations in flight;
\* a change of the flag re-renders the screen and re-runs its effect (deps [navigation, isOnline])
SetOnline(tk) ==
    /\ (user # NoUser /\ net # isOnline /\ net) => StoreSlotFree
    /\ isOnline' = net
    /\ IF user # NoUser /\ net # isOnline
       THEN Effect(user, net, tk)
       ELSE /\ tasks' = tk
            /\ UNCHANGED <<notes, loading, error>>

CheckResolve ==
    /\ CheckTask \in BagToSet(tasks)
    /\ SetOnline(tasks (-) One(CheckTask))
    /\ UNCHANGED <<user, net, prevOnline, clock, nextId, db, remote, hist, events>>

\* initializeNetworkStatus: checkNetworkStatus() has resolved, NetInfo.fetch() is awaited
InitCheck(t) ==
    /\ t \in BagToSet(tasks) /\ t.op = "init" /\ t.pc = "check"
    /\ SetOnline(AddNet(tasks (-) One(t), [t EXCEPT !.pc = "fetch"]))
    /\ UNCHANGED <<user, net, prevOnline, clock, nextId, db, remote, hist, events>>

\* previousOnlineStatus.current = netInfo.isConnected ?? false (the ref of that screen)
InitFetch(t) ==
    /\ t \in BagToSet(tasks) /\ t.op = "init" /\ t.pc = "fetch"
    /\ prevOnline' = IF user = t.user THEN OnOff(net) ELSE prevOnline
    /\ tasks' = tasks (-) One(t)
    /\ UNCHANGED <<user, net, isOnline, clock, nextId, db, remote, notes, loading,
                   error, hist, events>>

\* a test on the delivered status alone (a variant, not what the listener does)
BackOnlineLevel(prev, b) == b
\* the listener's test for "back online" (part_001:75-76)
BackOnline(prev, b) == prev # "null" /\ prev # OnOff(b) /\ b

\* the NetInfo listener of NotesListScreen (part_001:68-98), delivered the status b
Listener(b) ==
    /\ (BackOnline(prevOnline, b) /\ isOnline) => StoreSlotFree
    /\ prevOnline' = OnOff(b)
    /\ IF BackOnline(prevOnline, b)
       THEN RunSyncNotes(AddNet(tasks, CheckTask))
       ELSE /\ tasks' = AddNet(tasks, CheckTask)
            /\ UNCHANGED <<notes, loading, error, hist>>

\* connectivity changes; the mounted screen's listener is told
NetChange ==
    /\ Spend
    /\ net' = ~net
    /\ IF user # NoUser
       THEN Listener(net')
       ELSE UNCHANGED <<prevOnline, tasks, notes, loading, error, hist>>
    /\ UNCHANGED <<user, isOnline, clock, nextId, db, remote>>

\* NetInfo delivers the current status again (on subscription, or a detail changed)
NetRedeliver ==
    /\ Spend
    /\ user # NoUser
    /\ Listener(net)
    /\ UNCHANGED <<user, net, isOnline, clock, nextId, db, remote>>

\* pull-to-refresh (part_001:162-169)
OnRefresh ==
    /\ Spend
    /\ user # NoUser
    /\ CanStart
    /\ IF isOnline
       THEN RunSyncNotes(AddNet(tasks, CheckTask))
       ELSE /\ RunFetchNotes(user, isOnline, db, AddNet(tasks, CheckTask), "fetch", NoPass, NoFrame)
            /\ hist' = hist
    /\ UNCHANGED <<user, net, isOnline, prevOnline, clock, nextId, db, remote>>

\* ----- the session: authStore (part_001:299-430) and clearUserNotes (notesStore.ts:416-429) -----

\* signIn succeeded: the navigator mounts NotesListScreen, whose effect runs
SignIn(u) ==
    /\ Spend
    /\ user = NoUser
    /\ InFlight({"signout"}) = {}
    /\ isOnline => StoreSlotFree
    /\ user' = u
    /\ prevOnline' = "null"
    /\ Effect(u, isOnline, tasks)
    /\ UNCHANGED <<net, isOnline, clock, nextId, db, remote, hist>>

\* a purge of the active rows only (a variant, not what clearUserNotes does)
ClearUserNotesActive(d, u) == Remove(d, ActiveIds(d, u))
\* DELETE FROM notes WHERE user_id = ?
ClearUserNotes(d, u) == Remove(d, {i \in DOMAIN d : d[i].user_id = u})

\* signOut: clearUserNotes(currentUser.id) has run, supabase.auth.signOut() is awaited
SignOutStart ==
    /\ Spend
    /\ user # NoUser
    /\ InFlight({"signout"}) = {}
    /\ db' = ClearUserNotes(db, user)
    /\ notes' = <<>>
    /\ tasks' = tasks (+) One(Task("signout", "auth", user))
    /\ UNCHANGED <<user, net, isOnline, prevOnline, clock, nextId, remote,
                   loading, error, hist>>

\* set({ user: null, session: null }); the notes screen is unmounted
SignOutDone(t) ==
    /\ t \in BagToSet(tasks) /\ t.op = "signout" /\ t.pc = "auth"
    /\ user' = NoUser
    /\ prevOnline' = "null"
    /\ tasks' = tasks (-) One(t)
    /\ UNCHANGED <<net, isOnline, clock, nextId, db, remote, notes, loading, error,
                   hist, events>>

\* ----- the store's functions called directly -----

\* fetchNotes() called by a component, whoever is signed in
FetchNotes ==
    /\ Spend
    /\ CanStart
    /\ RunFetchNotes(user, isOnline, db, tasks, "fetch", NoPass, NoFrame)
    /\ UNCHANGED <<user, net, isOnline, prevOnline, clock, nextId, db, remote, hist>>

\* syncNotes() called by a component, whoever is signed in
SyncNotes ==
    /\ Spend
    /\ CanStart
    /\ RunSyncNotes(tasks)
    /\ UNCHANGED <<user, net, isOnline, prevOnline, clock, nextId, db, remote>>

\* ----- the environment -----

\* what another client may write: as this app does, or with no content (the column is
\* nullable: fetchNotes reads it as note.content || '')
RemoteInputs == Inputs \cup {[title |-> "Errands", content |-> Null]}

\* another device of the same owner edits a row of the remote table
RemoteEdit(i, title, content, now) ==
    /\ Spend
    /\ i \in DOMAIN remote
    /\ remote' = [remote EXCEPT ![i].title = title, ![i].content = content,
                                ![i].updated_at = now]
    /\ remote' # remote
    /\ clock' = now
    /\ UNCHANGED <<user, net, isOnline, prevOnline, nextId, db, notes,
                   loading, error, tasks, hist>>

\* ----- the state machine -----

\* an id no row was ever created with (ids are random: none is created with it later)
MissingId == MaxNotes + 1

\* the ids a caller passes: those of the local rows, those of the remote rows (a note
\* screen may be open on a row that is no longer in the local table), and one that has
\* no row anywhere
Targets == DOMAIN db \cup DOMAIN remote \cup {MissingId}

\* a note created online, mirrored and pulled back: clean in the local table, the same
\* remotely, shown in the listing
CleanRow == NewRow(FirstUser, "Groceries", "milk", 0, FALSE)
CleanNote == [d |-> 1 :> [CleanRow EXCEPT !.synced = TRUE],
              r |-> 1 :> [user_id |-> FirstUser, title |-> "Groceries", content |-> "milk",
                          created_at |-> 0, updated_at |-> 0, deleted |-> FALSE],
              h |-> [i \in Ids |-> IF i = 1 THEN [BlankHist EXCEPT !.backed = TRUE] ELSE BlankHist],
              next |-> 2]
NoNote == [d |-> <<>>, r |-> <<>>, h |-> [i \in Ids |-> BlankHist], next |-> 1]

\* the app is running with FirstUser signed in and nothing in flight: NotesListScreen is
\* mounted and its effect has completed, so the store's flag and the screen's ref hold
\* the connectivity; the store holds no note, or one clean note
Settled(budget) ==
    /\ user = FirstUser
    /\ net \in BOOLEAN
    /\ isOnline = net
    /\ prevOnline = OnOff(net)
    /\ clock = 0
    /\ \E s \in {NoNote, CleanNote} :
         /\ db = s.d
         /\ remote = s.r
         /\ hist = s.h
         /\ nextId = s.next
         /\ notes \in Listings(s.d, FirstUser)
    /\ loading = FALSE
    /\ error = Null
    /\ tasks = EmptyBag
    /\ events = budget

Init == Settled(MaxEvents)

\* what the user and the network do
UserStep ==
    \/ NetChange
    \/ NetRedeliver
    \/ OnRefresh
    \/ \E in \in Inputs, now \in Nows : CreateNote(in.title, in.content, now)
    \/ \E i \in Targets, in \in Inputs, now \in Nows : UpdateNote(i, in.title, in.content, now)
    \/ \E i \in Targets : DeleteNote(i)

\* the remote's replies and the continuations of the operations in flight
SystemStep ==
    \/ CheckResolve
    \/ \E t \in BagToSet(tasks) : InitCheck(t)
    \/ \E t \in BagToSet(tasks) : InitFetch(t)
    \/ \E t \in BagToSet(tasks) : ServeWrite(t)
    \/ \E t \in BagToSet(tasks) : ServeSelect(t)
    \/ \E t \in BagToSet(tasks) : ResumeMirror(t)
    \/ \E t \in BagToSet(tasks) : ResumeSync(t)
    \/ \E t \in BagToSet(tasks) : ResumeFetch(t)

Next == UserStep \/ SystemStep

Spec == Init /\ [][Next]_vars

\* sequential use: the user and the network act only when no store operation is in
\* flight, with a longer run
Quiet == Count(StoreOps) = 0
NextSeq ==
    \/ Quiet /\ NetChange
    \/ Quiet /\ NetRedeliver
    \/ Quiet /\ OnRefresh
    \/ \E in \in Inputs, now \in Nows : Quiet /\ CreateNote(in.title, in.content, now)
    \/ \E i \in Targets, in \in Inputs, now \in Nows :
          Quiet /\ UpdateNote(i, in.title, in.content, now)
    \/ \E i \in Targets : Quiet /\ DeleteNote(i)
    \/ SystemStep
InitSeq == Settled(MaxSeqEvents)
SpecSeq == InitSeq /\ [][NextSeq]_vars

\* the same with sign-out, sign-in and another device writing to the remote table
NextSession ==
    \/ Next
    \/ \E u \in Users : SignIn(u)
    \/ SignOutStart
    \/ \E t \in BagToSet(tasks) : SignOutDone(t)
    \/ FetchNotes
    \/ SyncNotes
    \/ \E i \in Ids, in \in RemoteInputs, now \in Nows : RemoteEdit(i, in.title, in.content, now)

SpecSession == Init /\ [][NextSession]_vars

\* the same as Next with a local table that may refuse an INSERT
NextStorage ==
    \/ Next
    \/ \E in \in Inputs : CreateNoteFails(in.title, in.content)

SpecStorage == Init /\ [][NextStorage]_vars

\* ----- what the claims speak of -----

\* the tasks of syncNotes passes in flight: a pass awaiting a push, or its trailing fetchNotes
PassTasks(tk) == {t \in BagToSet(tk) : t.op = "sync" \/ (t.op = "fetch" /\ t.caller = "sync")}
PassCount(tk) == BagCardinality([t \in PassTasks(tk) |-> tk[t]])

\* this step is a createNote, updateNote or deleteNote of the signed-in user on row i
Touches(i) ==
    /\ user # NoUser
    /\ \/ i = nextId /\ \E in \in Inputs, now \in Nows : CreateNote(in.title, in.content, now)
       \/ i \in DOMAIN db /\ \E in \in Inputs, now \in Nows : UpdateNote(i, in.title, in.content, now)
       \/ i \in DOMAIN db /\ DeleteNote(i)

\* this step ends the pass t: its trailing fetchNotes has been answered
PassEnds(t) == t \in PassTasks(tasks) /\ ResumeFetch(t)
\* ... and every remote call of the pass, the fetch included, succeeded
CleanPassEnds(t) == PassEnds(t) /\ t.ok /\ t.pass.allOk

\* C1: every createNote, updateNote or deleteNote made while the store's isOnline flag
\* is false leaves the row it touched with synced = false, and the listing is the active
\* rows of the local table as soon as the operation completes
C1_OfflineMutationUnsynced ==
    [][\A i \in Ids :
         (~isOnline /\ Touches(i)) =>
            (i \in DOMAIN db' /\ ~db'[i].synced /\ notes' \in Listings(db', user))]_vars

\* C2: when the listener is told of a change from offline to online with a user signed
\* in, a syncNotes pass starts (it is not skipped on the store's stale isOnline flag)
C2_BackOnlineStartsPass ==
    [][(user # NoUser /\ net' # net /\ BackOnline(prevOnline, net'))
          => PassCount(tasks') = PassCount(tasks) + 1]_vars

\* C3: when the first pass after a note was created offline ends with every remote call
\* a success, the remote row of that id has the title and content of the note's last
\* local edit, as the local row has, and the local row is synced
C3_OfflineCreateRoundTrip ==
    [][\A t \in BagToSet(tasks), i \in Ids :
         (CleanPassEnds(t) /\ i \in t.pass.first /\ hist[i].created /\ ~hist[i].deleted) =>
            /\ i \in DOMAIN remote' /\ i \in DOMAIN db'
            /\ remote'[i].title = hist[i].last.title /\ remote'[i].content = hist[i].last.content
            /\ db'[i].title = remote'[i].title /\ db'[i].content = remote'[i].content
            /\ db'[i].synced]_vars

\* C4: the first pass after a note was created offline sends exactly one upsert for that
\* id, and when it ends with every remote call a success the local row is synced
C4_OfflineCreateOneUpsert ==
    [][\A t \in BagToSet(tasks), i \in Ids :
         (CleanPassEnds(t) /\ i \in t.pass.first /\ hist[i].created /\ ~hist[i].deleted) =>
            (hist'[i].ups = 1 /\ i \in DOMAIN db' /\ db'[i].synced)]_vars

\* C5: after two or more offline updateNote calls on one id, the first pass sends exactly
\* one upsert for that id, the remote row then has the title and content of the last edit,
\* and the local table has the row of that id
C5_OfflineUpdatesOneUpsert ==
    [][\A t \in BagToSet(tasks), i \in Ids :
         (CleanPassEnds(t) /\ i \in t.pass.first /\ hist[i].edits >= 2 /\ ~hist[i].deleted) =>
            /\ hist'[i].ups = 1
            /\ i \in DOMAIN remote'
            /\ remote'[i].title = hist[i].last.title /\ remote'[i].content = hist[i].last.content
            /\ i \in DOMAIN db']_vars

\* C6: after a note was deleted offline, the first pass sends exactly one mark-deleted
\* call for that id, and afterwards the local row is there, deleted, and not in the listing
C6_OfflineDeleteOneTombstone ==
    [][\A t \in BagToSet(tasks), i \in Ids :
         (CleanPassEnds(t) /\ i \in t.pass.first /\ hist[i].deleted) =>
            /\ hist'[i].dels = 1
            /\ i \in DOMAIN db' /\ db'[i].deleted
            /\ \A k \in DOMAIN notes' : notes'[k].id # i]_vars

\* C7: a local row has synced = true only if a remote call that carried the row's
\* current state has been seen to succeed since its last local mutation
C7_SyncedOnlyIfBacked == \A i \in DOMAIN db : db[i].synced => hist[i].backed

\* C8: at most one syncNotes pass is in flight
C8_OnePassInFlight == PassCount(tasks) <= 1

\* C9 as the spec has it: a pass sends no upsert or mark-deleted call before its fetch
\* has been written locally
C9_PullBeforePush == \A t \in PassTasks(tasks) : t.pass.pushed > 0 => t.pass.pulled

\* C9, as the code has it: in a pass the pushes precede the pull. A pass awaiting a push
\* has not fetched, its fetchNotes is sent only when every push of its snapshot has been
\* sent and answered, and the listing is read again when the last push has been answered
\* and when the fetched rows have been written
C9_PushBeforePull ==
    [][/\ \A t \in PassTasks(tasks') :
            /\ ~t.pass.pulled
            /\ t.op = "sync" => t.pass.pushed + Len(t.toSync) + Len(t.toDel) = t.pass.total + 1
            /\ t.op = "fetch" => t.pass.pushed = t.pass.total
       /\ \A t \in BagToSet(tasks) :
            ((t.op = "sync" /\ ResumeSync(t) /\ ~PushesLeft([t EXCEPT !.toSync = IF @ # <<>> THEN Tail(@) ELSE @,
                                                                        !.toDel = IF t.toSync # <<>> THEN @ ELSE Tail(@)]))
               \/ (PassEnds(t) /\ t.ok))
            => notes' \in Listings(db', user)]_vars

\* a pass with something to push has sent all of it and has its fetch answered
C9_Witness ==
    \E t \in PassTasks(tasks) :
        t.op = "fetch" /\ t.pc = "resp" /\ t.ok /\ t.pass.total > 0 /\ t.pass.pushed = t.pass.total

\* C10: a row that is dirty (synced = false) when a pull writes over it stays dirty
C10_PullKeepsDirty ==
    [][\A t \in BagToSet(tasks), i \in DOMAIN db :
         (t.op = "fetch" /\ ResumeFetch(t) /\ t.ok /\ i \in DOMAIN t.data /\ ~db[i].synced)
            => ~db'[i].synced]_vars


\* the operations that mirror their local mutation to the remote inline
Mutations == {"create", "update", "delete"}

\* C11: a failed remote call of createNote, updateNote or deleteNote is caught: the step
\* that handles it leaves the mutated row as it is and dirty and sets no error, and when
\* the operation completes (its trailing fetchNotes has been answered) the row, dirty
\* until then, is still dirty and no error has been set
C11_MirrorFailureLeavesDirty ==
    [][\A t \in BagToSet(tasks) :
         /\ (t.op \in Mutations /\ ResumeMirror(t) /\ ~t.ok /\ user = t.user /\ t.id \in DOMAIN db)
               => (db'[t.id] = db[t.id] /\ ~db'[t.id].synced /\ error' = Null)
         /\ (t.op = "fetch" /\ t.caller \in Mutations /\ t.frame.failed /\ ResumeFetch(t)
               /\ t.frame.id \in DOMAIN db /\ ~db[t.frame.id].synced)
               => (~db'[t.frame.id].synced /\ error' = error)]_vars

\* the id of the row whose push the pass t is waiting on
PushId(t) == IF t.toSync # <<>> THEN Head(t.toSync).id ELSE Head(t.toDel)

\* C12: in the push phase a failed call leaves its row as it is and the pass goes on with
\* the next push of the snapshot, a successful call marks its row synced, and a row whose
\* push failed, dirty until the pass ends, is still dirty when the pass has ended (so
\* that the next pass pushes it again)
C12_PushFailureIsolated ==
    [][\A t \in BagToSet(tasks) :
         /\ (t.op = "sync" /\ ResumeSync(t) /\ ~t.ok) =>
               /\ db' = db
               /\ Len(t.toSync) + Len(t.toDel) > 1 =>
                     \E n \in PassTasks(tasks') :
                        n.op = "sync" /\ n.pc = "req" /\ n.pass.pushed = t.pass.pushed + 1
         /\ (t.op = "sync" /\ ResumeSync(t) /\ t.ok /\ PushId(t) \in DOMAIN db) =>
               db'[PushId(t)].synced
         /\ PassEnds(t) =>
               \A i \in t.pass.failed : (i \in DOMAIN db /\ ~db[i].synced) => ~db'[i].synced]_vars

\* C13 as the spec has it: when the fetch of a pass fails, the pass has sent no upsert or
\* mark-deleted call, the failure is reported through the store's error, and no local
\* row changes
C13_PullFailureAborts ==
    [][\A t \in BagToSet(tasks) :
         (PassEnds(t) /\ ~t.ok) => (t.pass.pushed = 0 /\ error' # Null /\ db' = db)]_vars

\* C13, as the code has it: the fetch is the last step of a pass, so when it fails every
\* push of the pass's snapshot has been sent; the failure is only logged: the store's
\* error is left as it is, no local row and no entry of the listing changes, and the
\* pass ends with loading false
C13_PullFailureLogged ==
    [][\A t \in BagToSet(tasks) :
         (PassEnds(t) /\ ~t.ok) =>
            /\ t.pass.pushed = t.pass.total
            /\ error' = error
            /\ db' = db
            /\ notes' = notes
            /\ ~loading']_vars

\* the fetch of a pass that had something to push has failed and is about to be handled
C13_Witness ==
    \E t \in PassTasks(tasks) :
        t.op = "fetch" /\ t.pc = "resp" /\ ~t.ok /\ t.pass.total > 0 /\ error = Null

\* this step is a call of one of the store's five operations
StoreCall ==
    \/ FetchNotes
    \/ SyncNotes
    \/ \E in \in Inputs, now \in Nows : CreateNote(in.title, in.content, now)
    \/ \E i \in Targets, in \in Inputs, now \in Nows : UpdateNote(i, in.title, in.content, now)
    \/ \E i \in Targets : DeleteNote(i)

\* C14: fetchNotes, createNote, updateNote, deleteNote and syncNotes called while no user
\* is signed in return at once with the failure shown in the store's error, start no
\* remote call and change no local row
C14_NoUserFailsFast ==
    [][(user = NoUser /\ StoreCall)
          => (error' = ErrNotAuth /\ tasks' = tasks /\ db' = db /\ remote' = remote)]_vars

\* C15: when clearUserNotes(A) has run, the local table has no row whose user_id is A,
\* clean, dirty or deleted, the listing is empty, and the rows of other users are as
\* they were
C15_ClearUserNotesPurges ==
    [][SignOutStart =>
          /\ \A i \in DOMAIN db' : db'[i].user_id # user
          /\ ActiveIds(db', user) = {}
          /\ notes' = <<>>
          /\ \A i \in DOMAIN db : db[i].user_id # user => (i \in DOMAIN db' /\ db'[i] = db[i])]_vars

\* clearUserNotes has run for a user who had notes, and none of them is left
C15_Witness ==
    \E t \in BagToSet(tasks) :
        /\ t.op = "signout" /\ t.user = user
        /\ nextId > 1
        /\ \A i \in DOMAIN db : db[i].user_id # t.user
        /\ notes = <<>>

\* C16: at the moment a user becomes the current user, the local table holds no row of
\* another user: signOut has purged the rows of the one who left
C16_PurgedBeforeNextIdentity ==
    [][\A u \in Users : SignIn(u) => \A i \in DOMAIN db' : db'[i].user_id = u]_vars

\* C17: while a user is signed in, the listing holds only rows of that user, also when a
\* fetch or a pass started under another identity completes
C17_ListingOfCurrentUser == user # NoUser => \A k \in DOMAIN notes : notes[k].user_id = user

\* a pass started on the local table d, the listing l and the remote table rm by user u,
\* with every remote call a success, would send no push and change no row and no entry
\* of the listing: its snapshots are empty, and writing the selected rows changes nothing
PassChangesNothing(d, l, rm, u) ==
    /\ UnsyncedIds(d, u) = {}
    /\ UnsyncedDeletionIds(d, u) = {}
    /\ Pull(d, Selected(rm, u)) = d
    /\ {l[k] : k \in DOMAIN l} = {NoteOf(d, i) : i \in ActiveIds(d, u)}

\* C18: when a pass has ended with every remote call a success and no other operation is
\* in flight, every local row of the user is synced, and a second pass run then on the
\* same local and remote state sends no push and changes no row and no entry of the listing
C18_ReconcileIdempotent ==
    [][\A t \in BagToSet(tasks) :
         (CleanPassEnds(t) /\ t.user = user /\ PassCount(tasks') = 0 /\ InFlight(StoreOps)' = {}) =>
            /\ \A i \in DOMAIN db' : db'[i].user_id = user => db'[i].synced
            /\ PassChangesNothing(db', notes', remote', user)]_vars

\* a pass that pushed something is ending with every call a success, alone in flight
C18_Witness ==
    \E t \in PassTasks(tasks) :
        /\ t.op = "fetch" /\ t.pc = "resp" /\ t.ok /\ t.pass.allOk /\ t.pass.total > 0
        /\ t.user = user
        /\ InFlight(StoreOps) = {t} /\ tasks[t] = 1

\* the fetched row r is not what the local row l holds
Differs(l, r) == l.title # r.title \/ l.content # r.content \/ l.updated_at # r.updated_at

\* C19: when fetchNotes has fetched a row that differs from the local row of its id and
\* the local row is clean, the local row gets the fetched title, content (none read as
\* the empty string) and updated_at, and is left synced and not deleted
C19_PullOverwritesClean ==
    [][\A t \in BagToSet(tasks), i \in DOMAIN db :
         (t.op = "fetch" /\ ResumeFetch(t) /\ t.ok /\ i \in DOMAIN t.data
            /\ db[i].synced /\ Differs(db[i], t.data[i])) =>
               /\ db'[i].title = t.data[i].title
               /\ db'[i].content = OrEmpty(t.data[i].content)
               /\ db'[i].updated_at = t.data[i].updated_at
               /\ db'[i].synced /\ ~db'[i].deleted]_vars

\* a fetch has returned a row edited by another device, whose local row is clean and has
\* no local change behind it
C19_Witness ==
    \E t \in BagToSet(tasks), i \in DOMAIN db :
        /\ t.op = "fetch" /\ t.pc = "resp" /\ t.ok /\ i \in DOMAIN t.data
        /\ db[i].synced /\ ~OfflinePending(hist, i) /\ hist[i].backed
        /\ db[i].title # t.data[i].title

\* this step is the return of a createNote with the Note of id i whose synced field is b:
\* offline in the call itself, online when the trailing fetchNotes has ended
CreateReturns(i, b) ==
    \/ /\ user # NoUser /\ ~isOnline
       /\ i = nextId /\ b = NewNoteSynced(isOnline)
       /\ \E in \in Inputs, now \in Nows : CreateNote(in.title, in.content, now)
    \/ \E t \in BagToSet(tasks) :
          /\ t.op = "create" /\ ResumeMirror(t)
          /\ user = NoUser \/ ~isOnline
          /\ i = t.frame.id /\ b = AfterMirror(t).synced
    \/ \E t \in BagToSet(tasks) :
          /\ t.op = "fetch" /\ t.caller = "create" /\ ResumeFetch(t)
          /\ i = t.frame.id /\ b = t.frame.synced

\* C20: the Note createNote returns has the synced value its row has in the local table
\* at that moment
C20_ReturnedSyncedIsStored ==
    [][\A i \in Ids, b \in BOOLEAN :
         (CreateReturns(i, b) /\ i \in DOMAIN db') => db'[i].synced = b]_vars

\* this step is a fetchNotes of the signed-in user called on its own, from a component
\* or by pull-to-refresh, while the store's flag is offline: no select is sent
OfflineFetch ==
    /\ user # NoUser /\ ~isOnline
    /\ (FetchNotes \/ OnRefresh)

\* this step ends in the fetchNotes a createNote, updateNote or deleteNote of the
\* signed-in user finishes with, while the store's flag is offline
OfflineTrailingFetch ==
    /\ user # NoUser /\ ~isOnline
    /\ \/ \E i \in Ids : Touches(i)
       \/ \E t \in BagToSet(tasks) : ResumeMirror(t)

\* this step sends the select of a fetchNotes (the local rows have been read)
SelectSent(t) ==
    /\ t.op = "fetch" /\ t.pc = "req"
    /\ t \in BagToSet(tasks')
    /\ tasks'[t] > (IF t \in BagToSet(tasks) THEN tasks[t] ELSE 0)

C22_UpdatedAtAdvances ==
    [][/\ \A i \in DOMAIN db \cap DOMAIN db' : db'[i].updated_at >= db[i].updated_at
       /\ \A i \in DOMAIN db :
            /\ \A in \in Inputs, now \in Nows :
                 (user # NoUser /\ UpdateNote(i, in.title, in.content, now) /\ now > db[i].updated_at)
                    => db'[i].updated_at > db[i].updated_at
            /\ (user # NoUser /\ DeleteNote(i)) => db'[i].updated_at > db[i].updated_at]_vars

\* C23: updateNote of the signed-in user with an id that has no row in the local table
\* changes no local row, and its remote call changes no remote row
C23_UpdateOfMissingRowNoOp ==
    [][/\ \A i \in Targets \ DOMAIN db, in \in Inputs, now \in Nows :
            (user # NoUser /\ UpdateNote(i, in.title, in.content, now)) => db' = db
       /\ \A t \in BagToSet(tasks) :
            (t.op = "update" /\ ~t.frame.found /\ ServeWrite(t)) => remote' = remote]_vars

\* C24: the listing never holds an entry with deleted = true, and a tombstoned row of the
\* signed-in user whose remote row is not yet deleted is one the push phase of a pass
\* selects (it is among the unsynced deletions)
C24_TombstoneHiddenButPushed ==
    /\ \A k \in DOMAIN notes : ~notes[k].deleted
    /\ \A i \in DOMAIN db :
         (db[i].deleted /\ db[i].user_id = user /\ i \in DOMAIN remote /\ ~remote[i].deleted
            /\ InFlight(StoreOps) = {})
            => i \in UnsyncedDeletionIds(db, user)

\* C25: when the remote call of a createNote, updateNote or deleteNote of the signed-in
\* user has succeeded, the step that handles the reply leaves the local row synced, and
\* the remote row of that id has the title, content and deleted state of the local row
C25_MirrorSuccessIsClean ==
    [][\A t \in BagToSet(tasks) :
         (t.op \in Mutations /\ ResumeMirror(t) /\ t.ok /\ t.user = user /\ t.id \in DOMAIN db) =>
            /\ db'[t.id].synced
            /\ t.id \in DOMAIN remote
            /\ remote[t.id].title = db'[t.id].title
            /\ remote[t.id].content = db'[t.id].content
            /\ remote[t.id].deleted = db'[t.id].deleted]_vars

\* C26: when the remote call of an online updateNote or deleteNote has failed, the row
\* keeps the mutation: the fetchNotes the operation ends with leaves the row, dirty when
\* the fetch is answered, with the title, content and deleted state it has, and dirty
C26_FailedMirrorKeepsEdit ==
    [][\A t \in BagToSet(tasks) :
         (t.op = "fetch" /\ t.caller \in {"update", "delete"} /\ t.frame.failed /\ t.frame.found
            /\ ResumeFetch(t) /\ t.frame.id \in DOMAIN db /\ ~db[t.frame.id].synced) =>
               /\ db'[t.frame.id].title = db[t.frame.id].title
               /\ db'[t.frame.id].content = db[t.frame.id].content
               /\ db'[t.frame.id].deleted = db[t.frame.id].deleted
               /\ ~db'[t.frame.id].synced]_vars

\* this step is a delivery of the connectivity status to the screen's listener
Delivery == user # NoUser /\ (NetChange \/ NetRedeliver)

\* syncNotes has been called in this step: a pass has started, or the call has set the
\* store's error
SyncCalled == PassCount(tasks') > PassCount(tasks) \/ error' # error

\* C27: the listener calls syncNotes only when it is delivered online while the status
\* it recorded last is offline: not on the first delivery after the screen is mounted
\* (nothing recorded), not when the delivered status is the recorded one, and not when
\* the delivered status is offline; and in every case it records the delivered status
C27_ListenerEdgeTriggered ==
    [][Delivery =>
          /\ SyncCalled => (prevOnline = "offline" /\ net')
          /\ (prevOnline = "null" \/ prevOnline = OnOff(net') \/ ~net') =>
                (PassCount(tasks') = PassCount(tasks) /\ error' = error /\ loading' = loading)
          /\ prevOnline' = OnOff(net')]_vars

\* the listener has called syncNotes on a change from offline to online (the call found
\* the store's flag still offline)
C27_Witness == user # NoUser /\ prevOnline = "online" /\ net /\ error = ErrOffline

\* this step handles the successful reply of the remote call for row i: of a createNote,
\* updateNote or deleteNote, or of a push of a pass
MarksSynced(i) ==
    \E t \in BagToSet(tasks) :
        /\ t.pc = "resp" /\ t.ok
        /\ \/ t.op \in Mutations /\ i = t.id /\ ResumeMirror(t)
           \/ t.op = "sync" /\ i = PushId(t) /\ ResumeSync(t)

\* C28: marking a row synced changes its synced flag and nothing else: after the step
\* the local table has the rows it had, every other row is as it was, and the marked row
\* is as it was but synced; when the row is gone the local table is as it was
C28_MarkSyncedOnlyFlag ==
    [][\A i \in Ids \cup {MissingId} :
         MarksSynced(i) =>
            /\ DOMAIN db' = DOMAIN db
            /\ \A j \in DOMAIN db : j # i => db'[j] = db[j]
            /\ i \in DOMAIN db => db'[i] = [db[i] EXCEPT !.synced = TRUE]]_vars

\* the successful reply for a row that was purged while the call was in flight is about
\* to be handled
C28_Witness ==
    \E t \in BagToSet(tasks) :
        /\ t.op \in Mutations \cup {"sync"} /\ t.pc = "resp" /\ t.ok
        /\ (IF t.op = "sync" THEN PushId(t) ELSE t.id) \in Ids \ DOMAIN db
        /\ (IF t.op = "sync" THEN PushId(t) ELSE t.id) < nextId

\* C29: the listing is ordered by updated_at descending: of two entries the earlier one
\* has an updated_at greater than or equal to that of the later one
C29_ListingDescending ==
    \A a, b \in DOMAIN notes : a < b => notes[a].updated_at >= notes[b].updated_at

\* fetchNotes has set a listing of two notes with different times
C29_Witness == Len(notes) = 2 /\ notes[1].updated_at > notes[2].updated_at

\* C30: the user_id of a local row never changes: whatever the step (createNote,
\* updateNote, deleteNote, a pull, a push, a mark), a row that is in the local table
\* before and after it has the user_id it had
C30_OwnerNeverChanges ==
    [][\A i \in DOMAIN db \cap DOMAIN db' : db'[i].user_id = db[i].user_id]_vars

\* a pull is about to write over a local row with a row that another device has edited
C30_Witness ==
    \E t \in BagToSet(tasks), i \in DOMAIN db :
        /\ t.op = "fetch" /\ t.pc = "resp" /\ t.ok /\ i \in DOMAIN t.data
        /\ Differs(db[i], t.data[i])
        /\ t.data[i].user_id = db[i].user_id

\* C31: with a user signed in, createNote gives up (error set to its failure, no Note)
\* only when the local INSERT fails, a step that writes no row and starts no remote
\* call. When the INSERT has succeeded the call keeps its Note to the end: the step that
\* handles the reply of the remote insert, failed or not, and the step that handles the
\* reply of the trailing fetchNotes, failed or not, hold the Note of the inserted id
\* and do not set the failure
C31_CreateFailsOnlyOnLocalInsert ==
    [][/\ (error' = ErrCreate /\ error # ErrCreate) => (db' = db /\ tasks' = tasks /\ remote' = remote)
       /\ \A in \in Inputs, now \in Nows :
            (user # NoUser /\ ~isOnline /\ CreateNote(in.title, in.content, now)) =>
               (nextId \in DOMAIN db' /\ error' = Null)
       /\ \A t \in BagToSet(tasks) :
            /\ (t.op = "create" /\ ResumeMirror(t)) =>
                  (AfterMirror(t).id = t.id /\ t.id \in Ids /\ error' # ErrCreate)
            /\ (t.op = "fetch" /\ t.caller = "create" /\ ResumeFetch(t)) =>
                  (t.frame.id \in Ids /\ (error' = ErrCreate => error = ErrCreate))]_vars

\* a createNote whose remote insert failed and whose trailing fetchNotes failed is about
\* to return
C31_Witness ==
    \E t \in BagToSet(tasks) :
        /\ t.op = "fetch" /\ t.caller = "create" /\ t.pc = "resp" /\ ~t.ok
        /\ t.frame.failed /\ t.frame.id \in DOMAIN db

\* the remote row of id i holds what the local row holds
Mirrored(d, rm, i) ==
    /\ i \in DOMAIN rm
    /\ rm[i].title = d[i].title /\ rm[i].content = d[i].content /\ rm[i].deleted = d[i].deleted

\* C32: a local edit or delete made after a pass took its snapshot is not lost to that
\* pass: when the reply to the upsert of a row arrives and the row, dirty, is no longer
\* what the snapshot holds, the step leaves the row synced only if the remote row holds
\* what the local row holds
C32_StalePushKeepsDirty ==
    [][\A t \in BagToSet(tasks) :
         (t.op = "sync" /\ t.toSync # <<>> /\ ResumeSync(t) /\ t.ok
            /\ PushId(t) \in DOMAIN db /\ ~db[PushId(t)].synced
            /\ ~AgreesContent(db, PushId(t), Head(t.toSync)))
            => (db'[PushId(t)].synced => Mirrored(db', remote, PushId(t)))]_vars

\* C33: a tombstoned local row is never made live again: in every step a row that is
\* deleted before it and still in the local table after it is deleted after it, and it
\* is not in the listing the step leaves
C33_TombstoneStays ==
    [][\A i \in DOMAIN db \cap DOMAIN db' :
         db[i].deleted =>
            (db'[i].deleted /\ (notes' # notes => \A k \in DOMAIN notes' : notes'[k].id # i))]_vars

\* signOut has purged the rows of user u: it is awaiting supabase.auth.signOut(), or
\* it has completed and u is no longer the signed-in user
SignedOut(u) == user # u \/ \E s \in InFlight({"signout"}) : s.user = u

\* C34: a fetchNotes started by a user (on its own or as the end of a pass) whose reply
\* is handled after signOut has purged that user's rows writes none of them back: the
\* rows of that user in the local table after the step were there before it
C34_NoPullAfterPurge ==
    [][\A t \in BagToSet(tasks) :
         (t.op = "fetch" /\ ResumeFetch(t) /\ SignedOut(t.user)) =>
            \A i \in DOMAIN db' : db'[i].user_id = t.user => i \in DOMAIN db]_vars

\* C35: when a user is signed in and no operation of the store is in flight, the entries
\* of the listing are the local rows of that user that are not deleted, field by field
C35_ListingIsLocalWhenSettled ==
    (user # NoUser /\ InFlight(StoreOps) = {}) =>
        {notes[k] : k \in DOMAIN notes} = {NoteOf(db, i) : i \in ActiveIds(db, user)}

\* this step calls syncNotes for the signed-in user while the store's flag is offline:
\* from a component, or from the listener told that the device is back online
OfflineSyncCall ==
    /\ user # NoUser /\ ~isOnline
    /\ \/ SyncNotes
       \/ NetChange /\ BackOnline(prevOnline, net')

\* C36: syncNotes called with a user signed in while the store's flag is offline sets
\* the error to the offline message and nothing else: it starts no pass and no remote
\* call, and leaves every local row, every remote row, the listing and loading as they are
C36_OfflineSyncOnlySetsError ==
    [][OfflineSyncCall =>
          /\ error' = ErrOffline
          /\ PassCount(tasks') = PassCount(tasks)
          /\ InFlight(StoreOps)' = InFlight(StoreOps)
          /\ db' = db /\ remote' = remote /\ notes' = notes /\ loading' = loading]_vars

\* syncNotes has been called offline with notes in the local table and has only set the error
C36_Witness ==
    /\ user # NoUser /\ ~isOnline /\ error = ErrOffline
    /\ InFlight(StoreOps) = {}
    /\ DOMAIN db # {}

TypeOK ==
    /\ user \in Users \cup {NoUser}
    /\ prevOnline \in {"null", "online", "offline"}
    /\ clock \in 0..MaxClock
    /\ DOMAIN db \subseteq Ids
    /\ DOMAIN remote \subseteq Ids
    /\ Count(StoreOps) <= MaxTasks

====
